---- MODULE Spec2Model ----
(***************************************************************************)
(* Process lifecycle of cmd/hcp-terraform-mcp-server/main.go: the stdio    *)
(* command (stdioCmd.Run), initLogger, and runStdioServer with its         *)
(* background goroutine, result channel, signal context and deferred       *)
(* teardown.                                                               *)
(*                                                                         *)
(* Three execution units are modelled: the supervisor (the goroutine that  *)
(* runs main / stdioCmd.Run / runStdioServer), the background goroutine    *)
(* started at main.go:175, and the signal listener behind                  *)
(* signal.NotifyContext (main.go:148).  server.StdioServer.Listen is a     *)
(* library call: it may return nil or a non-nil error at any time it is    *)
(* waiting for input, or never return.  Its read-dispatch-write cycle and  *)
(* the IOLogger around stdin/stdout follow the design document (sections   *)
(* 4.2 and 4.3), one message per transfer.                                 *)
(***************************************************************************)
EXTENDS Integers, Sequences, FiniteSets, TLC

\* ---- bounds ----
MaxSignals == 1
MaxRequests == 2

\* ---- program constants ----
\* mutant: make(chan error), a channel without the one-slot buffer
ErrCCapUnbuffered == 1 - 1

\* make(chan error, 1)
ErrCCap == 1

LogFiles == {"", "server.log"}
Results == {"nil", "err"}

VARIABLES
  pc,          \* supervisor position
  logFile,     \* viper.GetString("log-file")
  logCommands, \* viper.GetBool("enable-command-logging")
  logger,      \* "none" | "default" | "file"
  sink,        \* analytics: "none" | "open" | "closed"
  tracked,     \* number of mcp_server_started events submitted
  closeCount,  \* number of analytics.Close() calls
  defers,      \* deferred calls of runStdioServer, most recent first
  listener,    \* signal listener: "none" | "installed" | "released"
  ctxDone,     \* ctx.Done() is closed
  signals,     \* SIGINT/SIGTERM delivered to the listener
  errC,        \* contents of the result channel
  loopPc,      \* background goroutine position
  tapped,      \* in/out wrapped by the IOLogger
  handled,     \* requests the message loop has answered
  handlerErrs, \* of which the handler failed
  listenResult,\* value returned by stdioServer.Listen
  sends,       \* completed sends on errC
  triggers,    \* select cases taken by the supervisor
  recvd,       \* value received from errC by the select
  ret,         \* return value of runStdioServer
  teardowns,   \* times runStdioServer started running its deferred calls
  banner,      \* banner written to stderr
  eventLog,    \* order in which the two select events became ready
  outLog,      \* output written so far: who wrote, to which stream, loop running
  seen,        \* requests the message loop has read, as it received them
  pending,     \* response the loop is about to write
  written,     \* responses the loop has handed to its output
  crossed,     \* messages that crossed stdin/stdout, in crossing order
  tapLog,      \* records appended by the IOLogger
  lost,        \* transfers whose record the log sink rejected
  attempts,    \* transfers attempted on stdin/stdout so far
  rawWriteErr, \* transfers on which the write to stdout failed
  loopWriteErr,\* transfers on which the loop saw its write fail
  exitStatus   \* process exit status, -1 while running

vars == <<pc, logFile, logCommands, logger, sink, tracked, closeCount, defers,
          listener, ctxDone, signals, errC, loopPc, tapped, handled,
          handlerErrs, listenResult, sends, triggers, recvd, ret, teardowns,
          banner, eventLog, outLog, seen, pending, written, crossed, tapLog,
          lost, attempts, rawWriteErr, loopWriteErr, exitStatus>>

supVars == <<logger, sink, tracked, closeCount, defers, listener, triggers,
             recvd, ret, teardowns, banner>>
loopVars == <<loopPc, tapped, handled, handlerErrs, listenResult, sends>>
cfgVars == <<logFile, logCommands>>
ioVars == <<seen, pending, written, crossed, tapLog, lost, attempts,
           rawWriteErr, loopWriteErr>>

NoResponse == [req |-> "none", kind |-> "none", idx |-> 0]

Alive == exitStatus = -1

\* initLogger(outPath): the file is opened only for a non-empty path.
initLogger(outPath, openOK) ==
  IF outPath = "" THEN [logger |-> "default", err |-> "nil"]
  ELSE IF ~openOK THEN [logger |-> "none", err |-> "err"]
  ELSE [logger |-> "file", err |-> "nil"]

\* Listen has been entered and has not returned
LoopRunning == loopPc \in {"Listen", "Dispatch", "Write"}

\* one write by an execution unit to a stream
Out(unit, stream) == [unit |-> unit, stream |-> stream, loop |-> LoopRunning]

\* log.New() writes to stderr; initLogger redirects it to the log file
LoggerStream(l) == IF l = "file" THEN "file" ELSE "stderr"

\* mutant: the banner is printed with fmt.Printf
BannerStreamStdout == "stdout"

\* fmt.Fprintf(os.Stderr, ...)
BannerStream == "stderr"

\* stdlog.Fatal prints through the standard logger
FatalStream == "stderr"

Init ==
  /\ pc = "Run"
  /\ logFile \in LogFiles
  /\ logCommands \in BOOLEAN
  /\ logger = "none"
  /\ sink = "none"
  /\ tracked = 0
  /\ closeCount = 0
  /\ defers = <<>>
  /\ listener = "none"
  /\ ctxDone = FALSE
  /\ signals = 0
  /\ errC = <<>>
  /\ loopPc = "none"
  /\ tapped = FALSE
  /\ handled = 0
  /\ handlerErrs = 0
  /\ listenResult = "none"
  /\ sends = 0
  /\ triggers = {}
  /\ recvd = "none"
  /\ ret = "none"
  /\ teardowns = 0
  /\ banner = FALSE
  /\ eventLog = <<>>
  /\ outLog = {}
  /\ seen = <<>>
  /\ pending = NoResponse
  /\ written = <<>>
  /\ crossed = <<>>
  /\ tapLog = <<>>
  /\ lost = {}
  /\ attempts = 0
  /\ rawWriteErr = {}
  /\ loopWriteErr = {}
  /\ exitStatus = -1

\* ---- supervisor: stdioCmd.Run ----

\* logger, err := initLogger(logFile); if err != nil { stdlog.Fatal(...) }
RunInitLoggerIgnoreErr ==
  /\ pc = "Run"
  /\ \E openOK \in BOOLEAN :
       LET r == initLogger(logFile, openOK) IN
         /\ logger' = r.logger
         /\ pc' = "NewSegmentAnalytics"
         /\ exitStatus' = exitStatus
  /\ UNCHANGED <<cfgVars, sink, tracked, closeCount, defers, listener,
                 ctxDone, signals, errC, loopVars, triggers, recvd, ret,
                 teardowns, banner, eventLog, ioVars, outLog>>

RunInitLogger ==
  /\ pc = "Run"
  /\ \E openOK \in BOOLEAN :
       LET r == initLogger(logFile, openOK) IN
         IF r.err # "nil"
         THEN /\ pc' = "FatalLogger"
              /\ exitStatus' = 1
              /\ logger' = logger
              /\ outLog' = outLog \cup {Out("supervisor", FatalStream)}
         ELSE /\ pc' = "NewSegmentAnalytics"
              /\ exitStatus' = exitStatus
              /\ logger' = r.logger
              /\ outLog' = outLog
  /\ UNCHANGED <<cfgVars, sink, tracked, closeCount, defers, listener,
                 ctxDone, signals, errC, loopVars, triggers, recvd, ret,
                 teardowns, banner, eventLog, ioVars>>

\* ---- supervisor: runStdioServer ----

\* cfg.logger.Info("initializing analytics"); hashicorp.NewSegmentAnalytics(...)
NewSegmentAnalytics ==
  /\ pc = "NewSegmentAnalytics"
  /\ outLog' = outLog \cup {Out("supervisor", LoggerStream(logger))}
  /\ sink' = "open"
  /\ pc' = "Track"
  /\ UNCHANGED <<cfgVars, logger, tracked, closeCount, defers, listener,
                 ctxDone, signals, errC, loopVars, triggers, recvd, ret,
                 teardowns, banner, eventLog, ioVars, exitStatus>>

\* mutant: the started event is not submitted
TrackMissing ==
  /\ pc = "Track"
  /\ pc' = "DeferClose"
  /\ UNCHANGED <<cfgVars, logger, sink, tracked, closeCount, defers, listener,
                 ctxDone, signals, errC, loopVars, triggers, recvd, ret,
                 teardowns, banner, eventLog, ioVars, outLog, exitStatus>>

\* analytics.Track("mcp_server_started", ...)
Track ==
  /\ pc = "Track"
  /\ tracked' = tracked + 1
  /\ pc' = "DeferClose"
  /\ UNCHANGED <<cfgVars, logger, sink, closeCount, defers, listener, ctxDone,
                 signals, errC, loopVars, triggers, recvd, ret, teardowns,
                 banner, eventLog, ioVars, outLog, exitStatus>>

DeferCloseMissing ==
  /\ pc = "DeferClose"
  /\ pc' = "NotifyContext"
  /\ UNCHANGED <<cfgVars, logger, sink, tracked, closeCount, defers, listener,
                 ctxDone, signals, errC, loopVars, triggers, recvd, ret,
                 teardowns, banner, eventLog, ioVars, outLog, exitStatus>>

\* defer analytics.Close()
DeferClose ==
  /\ pc = "DeferClose"
  /\ defers' = <<"Close">> \o defers
  /\ pc' = "NotifyContext"
  /\ UNCHANGED <<cfgVars, logger, sink, tracked, closeCount, listener,
                 ctxDone, signals, errC, loopVars, triggers, recvd, ret,
                 teardowns, banner, eventLog, ioVars, outLog, exitStatus>>

\* ctx, stop := signal.NotifyContext(context.Background(), os.Interrupt, syscall.SIGTERM)
NotifyContext ==
  /\ pc = "NotifyContext"
  /\ listener' = "installed"
  /\ pc' = "DeferStop"
  /\ UNCHANGED <<cfgVars, logger, sink, tracked, closeCount, defers, ctxDone,
                 signals, errC, loopVars, triggers, recvd, ret, teardowns,
                 banner, eventLog, ioVars, outLog, exitStatus>>

\* defer stop()
DeferStop ==
  /\ pc = "DeferStop"
  /\ defers' = <<"stop">> \o defers
  /\ pc' = "NewServer"
  /\ UNCHANGED <<cfgVars, logger, sink, tracked, closeCount, listener,
                 ctxDone, signals, errC, loopVars, triggers, recvd, ret,
                 teardowns, banner, eventLog, ioVars, outLog, exitStatus>>

\* hashicorp.NewServer ... stdioServer.SetErrorLogger: no effect on the
\* lifecycle; a missing HCP_TFE_TOKEN or HCP_TFE_ADDRESS is logged as a warning
NewServer ==
  /\ pc = "NewServer"
  /\ \E warn \in BOOLEAN :
       outLog' = IF warn
                 THEN outLog \cup {Out("supervisor", LoggerStream(logger))}
                 ELSE outLog
  /\ pc' = "MakeChan"
  /\ UNCHANGED <<cfgVars, supVars, ctxDone, signals, errC, loopVars, eventLog,
                 ioVars, exitStatus>>

\* errC := make(chan error, 1)
MakeChan ==
  /\ pc = "MakeChan"
  /\ errC' = <<>>
  /\ pc' = "Go"
  /\ UNCHANGED <<cfgVars, supVars, ctxDone, signals, loopVars, eventLog,
                 ioVars, outLog, exitStatus>>

\* go func() { ... }()
Go ==
  /\ pc = "Go"
  /\ loopPc' = "spawned"
  /\ pc' = "Banner"
  /\ UNCHANGED <<cfgVars, supVars, ctxDone, signals, errC, tapped, handled,
                 handlerErrs, listenResult, sends, eventLog, ioVars, outLog,
                 exitStatus>>

\* fmt.Fprintf(os.Stderr, "HCP Terraform MCP Server running on stdio\n")
Banner ==
  /\ pc = "Banner"
  /\ banner' = TRUE
  /\ outLog' = outLog \cup {Out("supervisor", BannerStream)}
  /\ pc' = "Select"
  /\ UNCHANGED <<cfgVars, logger, sink, tracked, closeCount, defers, listener,
                 ctxDone, signals, errC, loopVars, triggers, recvd, ret,
                 teardowns, eventLog, ioVars, exitStatus>>

\* ---- the shutdown race ----

\* case <-ctx.Done(): cfg.logger.Infof("shutting down server...")
SelectCtx ==
  /\ ctxDone
  /\ triggers' = triggers \cup {"ctx"}
  /\ ret' = "nil"
  /\ outLog' = outLog \cup {Out("supervisor", LoggerStream(logger))}
  /\ UNCHANGED <<errC, recvd>>

\* case err := <-errC: if err != nil { return fmt.Errorf(...) }
SelectErrC ==
  /\ Len(errC) > 0
  /\ recvd' = Head(errC)
  /\ errC' = Tail(errC)
  /\ triggers' = triggers \cup {"errC"}
  /\ ret' = IF Head(errC) # "nil" THEN "err" ELSE "nil"
  /\ UNCHANGED outLog

SelectFrame ==
  /\ pc = "Select"
  /\ pc' = "Return"
  /\ UNCHANGED <<cfgVars, logger, sink, tracked, closeCount, defers, listener,
                 ctxDone, signals, loopVars, teardowns, banner, eventLog,
                 ioVars, exitStatus>>

\* mutant: the interruption case additionally waits for the loop's result
SelectWaitBoth ==
  /\ SelectFrame
  /\ \/ /\ ctxDone
        /\ Len(errC) > 0
        /\ triggers' = triggers \cup {"ctx"}
        /\ ret' = "nil"
        /\ UNCHANGED <<errC, recvd, outLog>>
     \/ SelectErrC

\* mutant: the received error is dropped
SelectSwallowErr ==
  /\ SelectFrame
  /\ \/ SelectCtx
     \/ /\ Len(errC) > 0
        /\ recvd' = Head(errC)
        /\ errC' = Tail(errC)
        /\ triggers' = triggers \cup {"errC"}
        /\ ret' = "nil"
        /\ UNCHANGED outLog

\* mutant: the nil check on the received value is missing
SelectAlwaysErr ==
  /\ SelectFrame
  /\ \/ SelectCtx
     \/ /\ Len(errC) > 0
        /\ recvd' = Head(errC)
        /\ errC' = Tail(errC)
        /\ triggers' = triggers \cup {"errC"}
        /\ ret' = "err"
        /\ UNCHANGED outLog

\* mutant: a default case lets the select fall through
SelectWithDefault ==
  /\ SelectFrame
  /\ \/ SelectCtx
     \/ SelectErrC
     \/ /\ ~ctxDone
        /\ Len(errC) = 0
        /\ ret' = "nil"
        /\ UNCHANGED <<errC, recvd, triggers, outLog>>

\* mutant: the interruption case returns ctx.Err()
SelectCtxErr ==
  /\ SelectFrame
  /\ \/ /\ ctxDone
        /\ triggers' = triggers \cup {"ctx"}
        /\ ret' = "err"
        /\ UNCHANGED <<errC, recvd, outLog>>
     \/ SelectErrC

\* mutant: after the interruption case the result channel is drained
SelectCtxDrain ==
  /\ SelectFrame
  /\ \/ /\ ctxDone
        /\ ret' = "nil"
        /\ UNCHANGED outLog
        /\ IF Len(errC) > 0
           THEN /\ recvd' = Head(errC)
                /\ errC' = Tail(errC)
                /\ triggers' = triggers \cup {"ctx", "errC"}
           ELSE /\ triggers' = triggers \cup {"ctx"}
                /\ UNCHANGED <<errC, recvd>>
     \/ SelectErrC

\* mutant: after a nil result the loop is started again
SelectRestart ==
  /\ pc = "Select"
  /\ UNCHANGED <<cfgVars, logger, sink, tracked, closeCount, defers, listener,
                 ctxDone, signals, loopVars, teardowns, banner, eventLog,
                 ioVars, exitStatus>>
  /\ \/ SelectCtx /\ pc' = "Return"
     \/ SelectErrC /\ pc' = IF Head(errC) = "nil" THEN "Go" ELSE "Return"

\* select { case <-ctx.Done(): ... case err := <-errC: ... }
\* When both cases are ready Go takes either one.
Select ==
  /\ SelectFrame
  /\ \/ SelectCtx
     \/ SelectErrC

\* return fmt.Errorf("error running server: %w", err)  /  return nil
Return ==
  /\ pc = "Return"
  /\ teardowns' = teardowns + 1
  /\ pc' = "Deferred"
  /\ UNCHANGED <<cfgVars, logger, sink, tracked, closeCount, defers, listener,
                 ctxDone, signals, errC, loopVars, triggers, recvd, ret,
                 banner, eventLog, ioVars, outLog, exitStatus>>

\* mutant: the deferred calls run in registration order
RunDeferredFIFO ==
  /\ pc = "Deferred"
  /\ defers # <<>>
  /\ defers' = SubSeq(defers, 1, Len(defers) - 1)
  /\ IF defers[Len(defers)] = "stop"
     THEN /\ listener' = "released"
          /\ ctxDone' = TRUE
          /\ UNCHANGED <<sink, closeCount>>
     ELSE /\ closeCount' = closeCount + 1
          /\ sink' = "closed"
          /\ UNCHANGED <<listener, ctxDone>>
  /\ pc' = IF Len(defers) = 1 THEN "RunCheckErr" ELSE "Deferred"
  /\ UNCHANGED <<cfgVars, logger, tracked, signals, errC, loopVars, triggers,
                 recvd, ret, teardowns, banner, eventLog, ioVars, outLog,
                 exitStatus>>

\* The deferred calls run last-registered first: stop(), then analytics.Close().
\* stop() releases the listener and cancels ctx.
RunDeferred ==
  /\ pc = "Deferred"
  /\ defers # <<>>
  /\ defers' = Tail(defers)
  /\ IF Head(defers) = "stop"
     THEN /\ listener' = "released"
          /\ ctxDone' = TRUE
          /\ UNCHANGED <<sink, closeCount>>
     ELSE /\ closeCount' = closeCount + 1
          /\ sink' = "closed"
          /\ UNCHANGED <<listener, ctxDone>>
  /\ pc' = IF Tail(defers) = <<>> THEN "RunCheckErr" ELSE "Deferred"
  /\ UNCHANGED <<cfgVars, logger, tracked, signals, errC, loopVars, triggers,
                 recvd, ret, teardowns, banner, eventLog, ioVars, outLog,
                 exitStatus>>

\* if err := runStdioServer(cfg); err != nil { stdlog.Fatal(...) }
RunCheckErr ==
  /\ pc = "RunCheckErr"
  /\ IF ret = "err"
     THEN /\ pc' = "FatalServer"
          /\ exitStatus' = 1
          /\ outLog' = outLog \cup {Out("supervisor", FatalStream)}
     ELSE /\ pc' = "MainReturn"
          /\ exitStatus' = exitStatus
          /\ outLog' = outLog
  /\ UNCHANGED <<cfgVars, supVars, ctxDone, signals, errC, loopVars, eventLog,
                 ioVars>>

\* rootCmd.Execute() returned nil: main returns and the process ends
MainReturn ==
  /\ pc = "MainReturn"
  /\ pc' = "Exited"
  /\ exitStatus' = 0
  /\ UNCHANGED <<cfgVars, supVars, ctxDone, signals, errC, loopVars, eventLog,
                 ioVars, outLog>>

\* ---- signal listener ----

\* SIGINT or SIGTERM reaches the installed listener, which cancels ctx
Interrupt ==
  /\ Alive
  /\ listener = "installed"
  /\ signals < MaxSignals
  /\ signals' = signals + 1
  /\ ctxDone' = TRUE
  /\ eventLog' = IF ctxDone THEN eventLog ELSE Append(eventLog, "cancel")
  /\ UNCHANGED <<pc, cfgVars, supVars, errC, loopVars, ioVars, outLog,
                 exitStatus>>

\* ---- background goroutine ----

\* mutant: the streams are wrapped whatever the flag says
GoFuncSetupAlwaysTap ==
  /\ Alive
  /\ loopPc = "spawned"
  /\ tapped' = TRUE
  /\ loopPc' = "Listen"
  /\ UNCHANGED <<pc, cfgVars, supVars, ctxDone, signals, errC, handled,
                 handlerErrs, listenResult, sends, eventLog, ioVars, outLog,
                 exitStatus>>

\* in, out := os.Stdin, os.Stdout; if cfg.logCommands { wrap both in the IOLogger }
GoFuncSetup ==
  /\ Alive
  /\ loopPc = "spawned"
  /\ tapped' = logCommands
  /\ loopPc' = "Listen"
  /\ UNCHANGED <<pc, cfgVars, supVars, ctxDone, signals, errC, handled,
                 handlerErrs, listenResult, sends, eventLog, ioVars, outLog,
                 exitStatus>>

\* ---- the duplex stream pair, with or without the IOLogger around it ----

\* A read of the transfer e from stdin, as the loop receives it. With the
\* IOLogger the data is recorded after it was read; a record the sink rejects
\* is lost and the read is unaffected.
IOReadNoRecord(tap, e, recOK) ==
  [data |-> e.msg, log |-> <<>>, lost |-> {}]

IORead(tap, e, recOK) ==
  [data |-> e.msg,
   log  |-> IF tap /\ recOK THEN <<e>> ELSE <<>>,
   lost |-> IF tap /\ ~recOK THEN {e.n} ELSE {}]

\* A write of the transfer e to stdout. With the IOLogger the data is
\* recorded before it is written; a record the sink rejects is lost and the
\* write is unaffected. rawOK tells whether stdout accepts the write.
IOWriteFailOnRecord(tap, e, rawOK, recOK) ==
  [err       |-> IF rawOK /\ (~tap \/ recOK) THEN "nil" ELSE "err",
   delivered |-> IF rawOK /\ (~tap \/ recOK) THEN <<e>> ELSE <<>>,
   failed    |-> IF (~tap \/ recOK) /\ ~rawOK THEN {e.n} ELSE {},
   log       |-> IF tap /\ recOK THEN <<e>> ELSE <<>>,
   lost      |-> IF tap /\ ~recOK THEN {e.n} ELSE {}]

IOWrite(tap, e, rawOK, recOK) ==
  [err       |-> IF rawOK THEN "nil" ELSE "err",
   delivered |-> IF rawOK THEN <<e>> ELSE <<>>,
   failed    |-> IF rawOK THEN {} ELSE {e.n},
   log       |-> IF tap /\ recOK THEN <<e>> ELSE <<>>,
   lost      |-> IF tap /\ ~recOK THEN {e.n} ELSE {}]

\* output of one transfer: the IOLogger writes its record through cfg.logger
TapOut(tap) == IF tap THEN {Out("tap", LoggerStream(logger))} ELSE {}

\* ---- inside Listen: the read-dispatch-write cycle ----

\* The client numbers its requests: the next one on stdin carries the next id.
NextRequest ==
  [req |-> Len(seen) + 1, kind |-> "request", idx |-> Len(seen) + 1]

\* mutant: the next request is read while a response is still to be written
ReadRequestPipelined ==
  /\ Alive
  /\ loopPc \in {"Listen", "Write"}
  /\ Len(seen) < MaxRequests
  /\ \E recOK \in BOOLEAN :
       LET e == [dir |-> "in", msg |-> NextRequest, n |-> attempts + 1]
           r == IORead(tapped, e, recOK)
       IN /\ seen' = Append(seen, r.data)
          /\ crossed' = Append(crossed, e)
          /\ tapLog' = tapLog \o r.log
          /\ lost' = lost \cup r.lost
  /\ attempts' = attempts + 1
  /\ outLog' = outLog \cup TapOut(tapped)
  /\ loopPc' = "Dispatch"
  /\ UNCHANGED <<pc, cfgVars, supVars, ctxDone, signals, errC, tapped, handled,
                 handlerErrs, listenResult, sends, eventLog, pending, written,
                 rawWriteErr, loopWriteErr, exitStatus>>

\* The loop blocks for the next message on its input and receives one.
ReadRequest ==
  /\ Alive
  /\ loopPc = "Listen"
  /\ Len(seen) < MaxRequests
  /\ \E recOK \in BOOLEAN :
       LET e == [dir |-> "in", msg |-> NextRequest, n |-> attempts + 1]
           r == IORead(tapped, e, recOK)
       IN /\ seen' = Append(seen, r.data)
          /\ crossed' = Append(crossed, e)
          /\ tapLog' = tapLog \o r.log
          /\ lost' = lost \cup r.lost
  /\ attempts' = attempts + 1
  /\ outLog' = outLog \cup TapOut(tapped)
  /\ loopPc' = "Dispatch"
  /\ UNCHANGED <<pc, cfgVars, supVars, ctxDone, signals, errC, tapped, handled,
                 handlerErrs, listenResult, sends, eventLog, pending, written,
                 rawWriteErr, loopWriteErr, exitStatus>>

\* mutant: a failing handler ends the loop with an error
DispatchFailStops ==
  /\ Alive
  /\ loopPc = "Dispatch"
  /\ handled' = handled + 1
  /\ \E ok \in BOOLEAN :
       /\ handlerErrs' = IF ok THEN handlerErrs ELSE handlerErrs + 1
       /\ pending' = [req |-> seen[Len(seen)].req,
                      kind |-> IF ok THEN "result" ELSE "error",
                      idx |-> Len(seen)]
       /\ loopPc' = IF ok THEN "Write" ELSE "Send"
       /\ listenResult' = IF ok THEN listenResult ELSE "err"
  /\ UNCHANGED <<pc, cfgVars, supVars, ctxDone, signals, errC, tapped, sends,
                 eventLog, seen, written, crossed, tapLog, lost, attempts,
                 rawWriteErr, loopWriteErr, outLog, exitStatus>>

\* The handler for the request is invoked; its result, or its failure turned
\* into an error object, becomes the response to write.
Dispatch ==
  /\ Alive
  /\ loopPc = "Dispatch"
  /\ handled' = handled + 1
  /\ \E ok \in BOOLEAN :
       /\ handlerErrs' = IF ok THEN handlerErrs ELSE handlerErrs + 1
       /\ pending' = [req |-> seen[Len(seen)].req,
                      kind |-> IF ok THEN "result" ELSE "error",
                      idx |-> Len(seen)]
  /\ loopPc' = "Write"
  /\ UNCHANGED <<pc, cfgVars, supVars, ctxDone, signals, errC, tapped,
                 listenResult, sends, eventLog, seen, written, crossed, tapLog,
                 lost, attempts, rawWriteErr, loopWriteErr, outLog, exitStatus>>

\* The response is written to the output; a failed write ends the loop with
\* a transport error.
WriteResponse ==
  /\ Alive
  /\ loopPc = "Write"
  /\ \E rawOK \in BOOLEAN, recOK \in BOOLEAN :
       LET e == [dir |-> "out", msg |-> pending, n |-> attempts + 1]
           r == IOWrite(tapped, e, rawOK, recOK)
       IN /\ written' = Append(written, e)
          /\ crossed' = crossed \o r.delivered
          /\ tapLog' = tapLog \o r.log
          /\ lost' = lost \cup r.lost
          /\ rawWriteErr' = rawWriteErr \cup r.failed
          /\ loopWriteErr' = IF r.err = "nil" THEN loopWriteErr
                                              ELSE loopWriteErr \cup {e.n}
          /\ outLog' = outLog \cup TapOut(tapped) \cup
                         (IF r.delivered # <<>> THEN {Out("loop", "stdout")}
                                                ELSE {})
          /\ IF r.err = "nil"
             THEN /\ loopPc' = "Listen"
                  /\ listenResult' = listenResult
             ELSE /\ loopPc' = "Send"
                  /\ listenResult' = "err"
  /\ attempts' = attempts + 1
  /\ pending' = NoResponse
  /\ UNCHANGED <<pc, cfgVars, supVars, ctxDone, signals, errC, tapped, handled,
                 handlerErrs, sends, eventLog, seen, exitStatus>>

\* stdioServer.Listen(ctx, in, out) returns nil or an error
ListenReturn ==
  /\ Alive
  /\ loopPc = "Listen"
  /\ \E r \in Results : listenResult' = r
  /\ loopPc' = "Send"
  /\ UNCHANGED <<pc, cfgVars, supVars, ctxDone, signals, errC, tapped,
                 handled, handlerErrs, sends, eventLog, ioVars, outLog,
                 exitStatus>>

\* errC <- result: proceeds when the channel buffer has room
SendResult ==
  /\ Alive
  /\ loopPc = "Send"
  /\ Len(errC) < ErrCCap
  /\ errC' = Append(errC, listenResult)
  /\ sends' = sends + 1
  /\ loopPc' = "Done"
  /\ eventLog' = Append(eventLog, "result")
  /\ UNCHANGED <<pc, cfgVars, supVars, ctxDone, signals, tapped, handled,
                 handlerErrs, listenResult, ioVars, outLog, exitStatus>>

Supervisor ==
  \/ RunInitLogger \/ NewSegmentAnalytics \/ Track \/ DeferClose
  \/ NotifyContext \/ DeferStop \/ NewServer \/ MakeChan \/ Go \/ Banner
  \/ Select \/ Return \/ RunDeferred \/ RunCheckErr \/ MainReturn

Next ==
  \/ RunInitLogger
  \/ NewSegmentAnalytics
  \/ Track
  \/ DeferClose
  \/ NotifyContext
  \/ DeferStop
  \/ NewServer
  \/ MakeChan
  \/ Go
  \/ Banner
  \/ Select
  \/ Return
  \/ RunDeferred
  \/ RunCheckErr
  \/ MainReturn
  \/ Interrupt
  \/ GoFuncSetup
  \/ ReadRequest
  \/ Dispatch
  \/ WriteResponse
  \/ ListenReturn
  \/ SendResult

Spec == Init /\ [][Next]_vars

\* The Go scheduler runs every runnable goroutine: the supervisor's steps and
\* the goroutine's non-blocking steps are taken when continuously enabled.
\* Nothing obliges a signal to arrive or Listen to return.
LiveSpec ==
  /\ Spec
  /\ WF_vars(Supervisor)
  /\ WF_vars(GoFuncSetup)
  /\ WF_vars(SendResult)

Exited == pc \in {"FatalLogger", "FatalServer", "Exited"}
ServerEntered == pc \notin {"Run", "FatalLogger"}

PastSelect == pc \in {"Return", "Deferred", "RunCheckErr", "MainReturn",
                      "FatalServer", "Exited"}

\* Lifecycle state of the supervisor at a control position:
\* 0 Initializing, 1 Running, 2 ShuttingDown, 3 Terminated.
Lifecycle(p) ==
  CASE p \in {"Run", "NewSegmentAnalytics", "Track", "DeferClose",
              "NotifyContext", "DeferStop", "NewServer", "MakeChan", "Go"} -> 0
    [] p \in {"Banner", "Select"} -> 1
    [] p \in {"Return", "Deferred", "RunCheckErr", "MainReturn"} -> 2
    [] p \in {"FatalLogger", "FatalServer", "Exited"} -> 3

\* Progress of the goroutine: not started, started, inside Listen, sending, done.
LoopRank(l) ==
  CASE l = "none" -> 0
    [] l = "spawned" -> 1
    [] l \in {"Listen", "Dispatch", "Write"} -> 2
    [] l = "Send" -> 3
    [] l = "Done" -> 4

IsIn(e) == e.dir = "in"
IsOut(e) == e.dir = "out"

\* what stdin delivered and what stdout received, in order
StdinSeq == SelectSeq(crossed, IsIn)
StdoutSeq == SelectSeq(crossed, IsOut)

\* ---- properties ----

\* C1: once runStdioServer has been entered, analytics.Close() has been called
\* exactly once by the time the process ends, and never more than once at any
\* time, whether shutdown came from an interruption, a nil result or an error.
C1_CloseExactlyOnce ==
  /\ closeCount <= 1
  /\ (Exited /\ ServerEntered) => (closeCount = 1 /\ sink = "closed")

C1_Witness ==
  /\ pc = "FatalServer"
  /\ recvd = "err"
  /\ closeCount = 1

\* C2: if the context was cancelled by a signal before the loop's result was
\* in the channel, runStdioServer returns nil and the process exits with
\* status 0, whatever the loop returns afterwards.
C2_InterruptionAlwaysClean ==
  (Exited /\ ServerEntered /\ eventLog # <<>> /\ Head(eventLog) = "cancel")
    => (ret = "nil" /\ exitStatus = 0)

\* C3: once the context is cancelled or the loop's result is in the channel,
\* the supervisor eventually terminates with Close called, without the other
\* event having to happen.
C3_TriggerLeadsToTerminated ==
  (ctxDone \/ Len(errC) > 0) ~> (Exited /\ closeCount = 1)

C3_Witness ==
  /\ Exited
  /\ triggers = {"ctx"}
  /\ signals > 0
  /\ loopPc = "Listen"
  /\ closeCount = 1
  /\ ret = "nil"

\* C4: when Listen returned a non-nil error and no signal was delivered, the
\* process ends with runStdioServer returning an error and exit status 1,
\* after Close has run.
C4_LoopErrorIsResult ==
  (Exited /\ ServerEntered /\ signals = 0 /\ listenResult = "err")
    => (pc = "FatalServer" /\ ret = "err" /\ exitStatus = 1 /\ closeCount = 1)

C4_Witness ==
  /\ pc = "FatalServer"
  /\ signals = 0
  /\ listenResult = "err"
  /\ exitStatus = 1

\* C5: when the select receives a nil result from the channel, runStdioServer
\* returns nil and the process ends with Close called and exit status 0.
C5_NilResultCleanExit ==
  /\ (PastSelect /\ recvd = "nil") => (ret = "nil" /\ pc # "FatalServer")
  /\ (Exited /\ recvd = "nil") => (exitStatus = 0 /\ closeCount = 1)

C5_Witness ==
  /\ pc = "Exited"
  /\ triggers = {"errC"}
  /\ recvd = "nil"
  /\ handled = 0
  /\ exitStatus = 0

\* C6: teardown is started by exactly one select case, never both and never
\* none, and the deferred teardown sequence runs once.
C6_ExactlyOneTrigger ==
  /\ teardowns <= 1
  /\ PastSelect => Cardinality(triggers) = 1
  /\ ~PastSelect => (triggers = {} /\ teardowns = 0)
  /\ (Exited /\ ServerEntered) => (teardowns = 1 /\ defers = <<>>)

C6_Witness ==
  /\ teardowns = 1
  /\ signals > 0
  /\ sends = 1
  /\ triggers = {"errC"}

\* C7 as stated: by the end of the run the supervisor has observed both the
\* context cancellation and the loop's result.
C7_BothObserved ==
  (Exited /\ ServerEntered) => ("ctx" \in triggers /\ "errC" \in triggers)

\* C7 amended: the supervisor observes exactly one of the two events, the one
\* that starts teardown; after the interruption case the channel is never
\* read, and the context is cancelled by the end of teardown in either case.
C7_OnlyTriggerObserved ==
  /\ "ctx" \in triggers => (recvd = "none" /\ "errC" \notin triggers)
  /\ "errC" \in triggers => (recvd # "none" /\ "ctx" \notin triggers)
  /\ (Exited /\ ServerEntered) => (Cardinality(triggers) = 1 /\ ctxDone)

C7_Witness ==
  /\ Exited
  /\ triggers = {"ctx"}
  /\ Len(errC) = 1
  /\ recvd = "none"

\* C8: the process fails only when the log file could not be opened or when
\* the select received a non-nil error from the channel; handler failures
\* inside the loop never make runStdioServer return an error.
C8_FailureOnlyFromLoggerOrLoopError ==
  /\ ret = "err" => ("errC" \in triggers /\ recvd = "err")
  /\ exitStatus = 1 =>
       \/ pc = "FatalLogger"
       \/ (pc = "FatalServer" /\ "errC" \in triggers /\ recvd = "err")

C8_Witness ==
  /\ pc = "Exited"
  /\ handlerErrs > 0
  /\ ret = "nil"
  /\ exitStatus = 0

\* C9: when initLogger fails, the process has exited with status 1 and no
\* sink was constructed, no event tracked, no listener installed and the
\* goroutine never started.
C9_LoggerFailureAborts ==
  (pc # "Run" /\ logger = "none") =>
    /\ pc = "FatalLogger"
    /\ exitStatus = 1
    /\ sink = "none"
    /\ tracked = 0
    /\ listener = "none"
    /\ loopPc = "none"
    /\ ~banner

C9_Witness ==
  /\ pc = "FatalLogger"
  /\ logFile # ""
  /\ exitStatus = 1

\* C10: the goroutine sends its result at most once, has sent exactly once
\* when it is done, and the send is never blocked: while the process lives a
\* goroutine at the send always gets past it, even if the supervisor left
\* through the interruption case and never reads the channel.
C10_SendOnceNeverBlocks ==
  /\ [](sends <= 1)
  /\ []((loopPc = "Done") <=> (sends = 1))
  /\ []((loopPc = "Send" /\ Alive) => ENABLED SendResult)
  /\ (loopPc = "Send") ~> (loopPc = "Done" \/ Exited)

C10_Witness ==
  /\ Alive
  /\ PastSelect
  /\ triggers = {"ctx"}
  /\ loopPc = "Done"
  /\ errC = <<listenResult>>

\* C11: at most one mcp_server_started event is ever submitted, it has been
\* submitted once the goroutine has been started (so before Listen reads any
\* input), and a run that entered runStdioServer ends with exactly one.
C11_StartedOnceBeforeLoop ==
  /\ tracked <= 1
  /\ loopPc # "none" => tracked = 1
  /\ seen # <<>> => tracked = 1
  /\ (Exited /\ ServerEntered) => tracked = 1

C11_Witness ==
  /\ tracked = 1
  /\ loopPc = "Listen"
  /\ handled > 0

\* C17: Close has been called only after the select has taken a case and
\* the function is running its deferred calls, and by then stop() has already
\* released the listener.
C17_CloseAfterRaceAndStop ==
  closeCount > 0 =>
    /\ Lifecycle(pc) >= 2
    /\ pc \notin {"Return", "Deferred"}
    /\ Cardinality(triggers) = 1
    /\ listener = "released"
    /\ ctxDone

C17_Witness ==
  /\ closeCount = 1
  /\ listener = "released"
  /\ pc = "RunCheckErr"

\* C18: every step keeps the lifecycle state or advances it by one (the
\* logger failure aborts straight to Terminated), no step leaves Terminated,
\* the goroutine is started only on the step into Running, and its progress
\* never goes back, so Listen is entered at most once.
C18_LifecycleMonotone ==
  [][ /\ ~Exited
      /\ \/ Lifecycle(pc') \in {Lifecycle(pc), Lifecycle(pc) + 1}
         \/ pc' = "FatalLogger"
      /\ LoopRank(loopPc') >= LoopRank(loopPc)
      /\ (loopPc' = "spawned" /\ loopPc # "spawned")
           => (loopPc = "none" /\ Lifecycle(pc) = 0 /\ Lifecycle(pc') = 1)
      /\ (Lifecycle(pc) = 0 /\ Lifecycle(pc') = 1) => loopPc' = "spawned"
    ]_vars

C18_Witness ==
  /\ pc = "Exited"
  /\ loopPc = "Done"
  /\ recvd = "nil"
  /\ tracked = 1

\* C12: every write to standard output made while Listen is running is made
\* by the message loop; the supervisor, the logger and the IOLogger write
\* elsewhere.
C12_StdoutOnlyByLoop ==
  \A w \in outLog : (w.stream = "stdout" /\ w.loop) => w.unit = "loop"

C12_Witness ==
  /\ [unit |-> "supervisor", stream |-> "stderr", loop |-> TRUE] \in outLog
  /\ [unit |-> "loop", stream |-> "stdout", loop |-> TRUE] \in outLog
  /\ \E w \in outLog : w.unit = "tap" /\ w.loop

\* C13: the loop has written the response to every request it has read
\* before it reads the next one; responses are in request order, one per
\* request, and unless a write failed they are what standard output received.
C13_StrictFIFO ==
  /\ Len(written) <= Len(seen)
  /\ Len(seen) <= Len(written) + 1
  /\ \A i \in DOMAIN written :
       /\ written[i].msg.idx = i
       /\ written[i].msg.req = seen[i].req
       /\ written[i].msg.kind \in {"result", "error"}
  /\ loopPc = "Listen" => Len(written) = Len(seen)
  /\ rawWriteErr = {} => StdoutSeq = written

C13_Witness ==
  /\ loopPc = "Listen"
  /\ Len(seen) = 2
  /\ Len(StdoutSeq) = 2
  /\ StdoutSeq[1].msg.req = seen[1].req
  /\ StdoutSeq[2].msg.req = seen[2].req

\* C14: a step on which a handler fails leaves the loop about to write an
\* error response, and once a write to standard output has failed the loop
\* has ended with an error.
C14_HandlerNonFatalWriteFatal ==
  /\ [](rawWriteErr # {} => (loopPc \in {"Send", "Done"} /\ listenResult = "err"))
  /\ [][handlerErrs' > handlerErrs =>
          (loopPc' = "Write" /\ pending'.kind = "error")]_vars

C14_Witness ==
  /\ handlerErrs = 2
  /\ Len(written) = 2
  /\ loopPc = "Listen"
  /\ rawWriteErr = {}

\* C15: the streams are wrapped by the IOLogger exactly when command logging
\* is enabled, and wrapped or not the loop reads what stdin delivered, sees a
\* write fail exactly when stdout failed it, and stdout receives exactly the
\* responses whose write did not fail.
C15_TapTransparent ==
  /\ LoopRank(loopPc) >= 2 => (tapped <=> logCommands)
  /\ LoopRank(loopPc) < 2 => ~tapped
  /\ seen = [i \in 1..Len(StdinSeq) |-> StdinSeq[i].msg]
  /\ loopWriteErr = rawWriteErr
  /\ LET Delivered(e) == e.n \notin rawWriteErr
     IN StdoutSeq = SelectSeq(written, Delivered)

C15_Witness ==
  /\ tapped
  /\ logCommands
  /\ lost # {}
  /\ Len(StdinSeq) = 2
  /\ Len(StdoutSeq) = 2
  /\ loopWriteErr = {}

\* C16 as stated: with the IOLogger active the log holds every message that
\* crossed stdin or stdout exactly once, in crossing order.
C16_EveryCrossingRecorded ==
  tapped =>
    LET Crossed(e) == \E i \in DOMAIN crossed : crossed[i] = e
    IN SelectSeq(tapLog, Crossed) = crossed

\* C16 amended: with the IOLogger active the log holds, exactly once and in
\* crossing order, every message that crossed and whose record the sink
\* accepted; no transfer is recorded twice or out of order, and without the
\* IOLogger nothing is recorded.
C16_RecordedUnlessRejected ==
  /\ ~tapped => tapLog = <<>>
  /\ \A i, j \in DOMAIN tapLog : i < j => tapLog[i].n < tapLog[j].n
  /\ tapped =>
       LET Crossed(e) == \E i \in DOMAIN crossed : crossed[i] = e
           Accepted(e) == e.n \notin lost
       IN SelectSeq(tapLog, Crossed) = SelectSeq(crossed, Accepted)

C16_Witness ==
  /\ tapped
  /\ Len(crossed) = 4
  /\ Cardinality(lost) = 1
  /\ Len(tapLog) = 3
====
